---------------------------- MODULE Spec2Model ----------------------------
(***************************************************************************)
(* Model of the DIET intent/entity trainer:                                *)
(*   DIET/DIET_lightning_model.py  DualIntentEntityTransformer             *)
(*   DIET/model/models.py          EmbeddingTransformer                    *)
(*                                                                         *)
(* Three specifications share the variables:                               *)
(*   SpecSplit    prepare_data and the two data loaders, over dataset      *)
(*                lengths 0..MaxSplitLen and binary64 train ratios;        *)
(*   SpecForward  EmbeddingTransformer.forward, statement by statement,    *)
(*                on tensors given by their shape (index tensors by their  *)
(*                content);                                                *)
(*   Spec         one fit: setup, the alternating optimizer steps, the     *)
(*                validation loop and the epoch-end hooks.                 *)
(***************************************************************************)
EXTENDS Integers, Sequences, FiniteSets

VARIABLES
    phase,          \* position of the run
    dataset_len,    \* len(self.dataset)
    hparams,        \* [train_ratio, batch_size]
    train_dataset,  \* self.train_dataset: [set, len]
    val_dataset,    \* self.val_dataset:   [set, len]
    train_loader,   \* [set, batches]
    val_loader,     \* [set, batches]
    optimizers,     \* list of optimizer object ids returned by configure_optimizers
    schedulers,     \* list of [optimizer, last_epoch] returned by configure_optimizers
    heap,           \* optimizer objects: id -> [params, decay, state]
    parameters,     \* the module's parameters: name -> number of updates applied
    grad,           \* parameter .grad: name -> "None" | "zero" | "set"
    cursor,         \* [epoch, batch_idx, optimizer_idx] of the training loop
    last_step,      \* the latest training_step call and what it returned
    outputs,        \* validation_step results of the running validation epoch
    logged,         \* metrics emitted at the end of this epoch's validation
    fwd             \* EmbeddingTransformer.forward: its locals

vars == <<phase, dataset_len, hparams, train_dataset, val_dataset, train_loader,
          val_loader, optimizers, schedulers, heap, parameters, grad, cursor,
          last_step, outputs, logged, fwd>>

-----------------------------------------------------------------------------
(* Bounds *)

MaxSplitLen == 100
MaxDataset == 3
MaxBatchSize == 2
MaxEpochs == 2
MaxLoss == 2

-----------------------------------------------------------------------------
(* Natural numbers wider than 31 bits, as little-endian bit sequences.      *)
(* Python floats are IEEE-754 binary64: a 53-bit significand times 2^exp.    *)

Pow2(k) == IF k <= 0 THEN 1 ELSE 2 ^ k

BitsOf(k, w) == [i \in 1..w |-> (k \div Pow2(i - 1)) % 2]

RECURSIVE ToNat(_)
ToNat(bits) == IF bits = <<>> THEN 0 ELSE Head(bits) + 2 * ToNat(Tail(bits))

RECURSIVE Strip(_)
Strip(bits) ==
    IF bits = <<>> THEN <<>>
    ELSE IF bits[Len(bits)] = 0 THEN Strip(SubSeq(bits, 1, Len(bits) - 1))
    ELSE bits

\* bits * n + carry, for a machine-sized n
RECURSIVE MulSmall(_, _, _)
MulSmall(bits, n, carry) ==
    IF bits = <<>>
    THEN IF carry = 0 THEN <<>> ELSE <<carry % 2>> \o MulSmall(<<>>, n, carry \div 2)
    ELSE LET t == Head(bits) * n + carry
         IN  <<t % 2>> \o MulSmall(Tail(bits), n, t \div 2)

\* bits + 1
RECURSIVE Inc(_)
Inc(bits) ==
    IF bits = <<>> THEN <<1>>
    ELSE IF Head(bits) = 0 THEN <<1>> \o Tail(bits)
    ELSE <<0>> \o Inc(Tail(bits))

ShiftLeft(bits, k) == IF bits = <<>> THEN <<>> ELSE [i \in 1..k |-> 0] \o bits

DropLow(bits, k) == IF k >= Len(bits) THEN <<>> ELSE SubSeq(bits, k + 1, Len(bits))

\* a <= b on stripped bit sequences
RECURSIVE LeqFrom(_, _, _)
LeqFrom(a, b, i) ==
    IF i = 0 THEN TRUE
    ELSE IF a[i] # b[i] THEN a[i] < b[i]
    ELSE LeqFrom(a, b, i - 1)

Leq(a, b) ==
    LET x == Strip(a)
        y == Strip(b)
    IN  IF Len(x) # Len(y) THEN Len(x) < Len(y) ELSE LeqFrom(x, y, Len(x))

\* A nonnegative binary64 value: sig * 2^exp, sig = <<>> (zero) or exactly 53 bits.
SigBits == 53

\* The train_ratio values of the model, each the binary64 nearest to the decimal
\* named: the significand in four limbs of 14 bits (low first) and the exponent.
Ratios ==
    { [name |-> "0.8",  limbs |-> <<6554, 9830, 6553, 1638>>,   exp |-> -53],
      [name |-> "0.5",  limbs |-> <<0, 0, 0, 1024>>,            exp |-> -53],
      [name |-> "0.7",  limbs |-> <<9830, 6553, 9830, 1433>>,   exp |-> -53],
      [name |-> "0.29", limbs |-> <<655, 9175, 13762, 1187>>,   exp |-> -54],
      [name |-> "0.1",  limbs |-> <<6554, 9830, 6553, 1638>>,   exp |-> -56],
      [name |-> "0.99", limbs |-> <<1966, 11141, 8519, 2027>>,  exp |-> -53],
      [name |-> "0.01", limbs |-> <<5243, 7864, 11796, 1310>>,  exp |-> -59] }

RatioNamed(s) == CHOOSE r \in Ratios : r.name = s

Float(r) ==
    [sig |-> BitsOf(r.limbs[1], 14) \o BitsOf(r.limbs[2], 14)
             \o BitsOf(r.limbs[3], 14) \o BitsOf(r.limbs[4], 11),
     exp |-> r.exp]

\* The exact product n * x, not yet rounded: any number of significant bits.
ExactMul(n, x) == [sig |-> Strip(MulSmall(x.sig, n, 0)), exp |-> x.exp]

\* Round to nearest, ties to even, to 53 significant bits.
RoundNearestEven(p) ==
    LET b == Len(p.sig)
        shift == b - SigBits
    IN  IF shift <= 0 THEN p
        ELSE LET kept == SubSeq(p.sig, shift + 1, b)
                 guard == p.sig[shift]
                 sticky == \E i \in 1..(shift - 1) : p.sig[i] = 1
                 up == guard = 1 /\ (sticky \/ kept[1] = 1)
                 r == IF up THEN Inc(kept) ELSE kept
             IN  IF Len(r) > SigBits
                 THEN [sig |-> DropLow(r, 1), exp |-> p.exp + shift + 1]
                 ELSE [sig |-> r, exp |-> p.exp + shift]

\* len(self.dataset) * self.train_ratio: int * float, a binary64 product
FloatMul(n, x) == RoundNearestEven(ExactMul(n, x))

\* int(f): the integer part, truncating toward zero (f >= 0 here)
PyIntRound(f) ==
    IF f.exp >= 0 THEN ToNat(ShiftLeft(f.sig, f.exp))
    ELSE LET half == IF -f.exp <= Len(f.sig) THEN f.sig[-f.exp] ELSE 0
         IN  ToNat(DropLow(f.sig, -f.exp)) + half

PyInt(f) ==
    IF f.exp >= 0 THEN ToNat(ShiftLeft(f.sig, f.exp))
    ELSE ToNat(DropLow(f.sig, -f.exp))


-----------------------------------------------------------------------------
(* Tensors.  A float tensor is its shape, a sequence of sizes; an index     *)
(* tensor of rank 1 or 2 is its content, a sequence (of sequences) of ints. *)

d_model == 512

MaxSeqLen == 2
MaxBatch == 2
MaxClasses == 2

\* torch.arange(n): 0, 1, ..., n-1
ArangeFromOne(n) == [i \in 1..n |-> i]

Arange(n) == [i \in 1..n |-> i - 1]

RECURSIVE Tile(_, _)
Tile(v, k) == IF k <= 0 THEN <<>> ELSE v \o Tile(v, k - 1)

\* v.repeat(a, b) for a rank-1 v: a rows, each v tiled b times
Repeat(v, a, b) == [i \in 1..a |-> Tile(v, b)]

\* the shape of a rank-2 index tensor
ShapeOf(m) == IF m = <<>> THEN <<0, 0>> ELSE <<Len(m), Len(m[1])>>

\* nn.Embedding(num, dim)(idx): one dim-vector per index, every index < num
EmbeddingOk(m, num) == \A i \in 1..Len(m) : \A j \in 1..Len(m[i]) : m[i][j] \in 0..(num - 1)

EmbeddingLookup(m, dim) == ShapeOf(m) \o <<dim>>

\* general broadcasting: the result shape of a + b, or <<>> when incompatible
BroadcastShape(a, b) ==
    IF Len(a) # Len(b) THEN <<>>
    ELSE IF \A i \in 1..Len(a) : a[i] = b[i] \/ a[i] = 1 \/ b[i] = 1
         THEN [i \in 1..Len(a) |-> IF a[i] = 1 THEN b[i] ELSE a[i]]
         ELSE <<>>

\* a += b: b must broadcast to the shape of a, which does not change
IAddOkOutOfPlace(a, b) == BroadcastShape(a, b) # <<>>

IAddOk(a, b) == BroadcastShape(a, b) = a

\* t.transpose(i, j), dimensions counted from 0
Transpose(shape, i, j) ==
    [k \in 1..Len(shape) |->
        IF k = i + 1 THEN shape[j + 1]
        ELSE IF k = j + 1 THEN shape[i + 1]
        ELSE shape[k]]

\* nn.Linear(in, out)(t): the last dimension becomes out
Linear(shape, out) == [k \in 1..Len(shape) |-> IF k = Len(shape) THEN out ELSE shape[k]]

\* t[0, :, :]
SelectFirst(shape) == Tail(shape)

\* x as the caller passes it: N rows of L' token ids
TokenMatrices(maxN, maxL, vocab) ==
    UNION { [1..n -> [1..l -> 0..(vocab - 1)]] : <<n, l>> \in (1..maxN) \X (1..maxL) }

\* The spec's end-to-end scenario: vocab 50, seq_len 10, 3 intents, 5 entity
\* classes, a batch of 4.
ScenarioModel ==
    [vocab_size |-> 50, seq_len |-> 10, intent_class_num |-> 3, entity_class_num |-> 5]

ScenarioBatch == [i \in 1..4 |-> [j \in 1..10 |-> (7 * i + 3 * j) % 50]]

ModelConfigs ==
    [vocab_size : {2}, seq_len : 1..MaxSeqLen,
     intent_class_num : 1..MaxClasses, entity_class_num : 1..MaxClasses]

lifecycle == <<phase, dataset_len, hparams, train_dataset, val_dataset, train_loader,
               val_loader, optimizers, schedulers, heap, parameters, grad, cursor,
               last_step, outputs, logged>>

Unset == [set |-> FALSE, n |-> 0]

NoStep == [called |-> FALSE]

LifecycleIdle ==
    /\ phase = "idle"
    /\ dataset_len = 0
    /\ hparams = [train_ratio |-> "0.5", batch_size |-> 1]
    /\ train_dataset = Unset /\ val_dataset = Unset
    /\ train_loader = Unset /\ val_loader = Unset
    /\ optimizers = <<>> /\ schedulers = <<>> /\ heap = <<>>
    /\ parameters = <<>> /\ grad = <<>>
    /\ cursor = [epoch |-> 0, batch_idx |-> 0, optimizer_idx |-> 0]
    /\ last_step = NoStep
    /\ outputs = <<>>
    /\ logged = <<>>

FwdIdle == [pc |-> "idle"]

\* EmbeddingTransformer.__init__ and the arguments of one forward(x) call
ForwardCalls ==
    { [pc |-> "embed", model |-> m, x |-> x, embedding |-> <<>>, positions |-> <<>>,
       feature |-> <<>>, result |-> <<>>, error |-> "none"] :
        <<m, x>> \in (ModelConfigs \X TokenMatrices(MaxBatch, MaxSeqLen, 2))
                     \cup {<<ScenarioModel, ScenarioBatch>>} }

\* line 38: embedding = self.embedding(x)
ForwardEmbed ==
    /\ UNCHANGED lifecycle
    /\ fwd.pc = "embed"
    /\ fwd' = IF EmbeddingOk(fwd.x, fwd.model.vocab_size)
              THEN [fwd EXCEPT !.pc = "position",
                               !.embedding = EmbeddingLookup(fwd.x, d_model)]
              ELSE [fwd EXCEPT !.pc = "raised", !.error = "IndexError@embedding"]

\* lines 39-41: embedding += self.position_embedding(arange(seq_len).repeat(N, 1))
ForwardPosition ==
    /\ UNCHANGED lifecycle
    /\ fwd.pc = "position"
    /\ LET idx == Repeat(Arange(fwd.model.seq_len), Len(fwd.x), 1)
           pos == EmbeddingLookup(idx, d_model)
       IN  fwd' = IF ~EmbeddingOk(idx, fwd.model.seq_len)
                  THEN [fwd EXCEPT !.pc = "raised", !.positions = idx,
                                   !.error = "IndexError@position"]
                  ELSE IF ~IAddOk(fwd.embedding, pos)
                  THEN [fwd EXCEPT !.pc = "raised", !.positions = idx,
                                   !.error = "ShapeMismatch@position"]
                  ELSE [fwd EXCEPT !.pc = "encode", !.positions = idx]

\* line 43: feature = self.encoder(embedding.transpose(1, 0))
ForwardEncode ==
    /\ UNCHANGED lifecycle
    /\ fwd.pc = "encode"
    /\ fwd' = [fwd EXCEPT !.pc = "heads", !.feature = Transpose(fwd.embedding, 1, 0)]

\* line 49: entity_feature.transpose(1, 0), (S,N,E) -> (N,S,E)
EntityOutputSequenceMajor(shape) == shape

EntityOutput(shape) == Transpose(shape, 1, 0)

\* lines 45-49: the two heads and the returned pair
ForwardHeads ==
    /\ UNCHANGED lifecycle
    /\ fwd.pc = "heads"
    /\ LET intent_feature == Linear(SelectFirst(fwd.feature), fwd.model.intent_class_num)
           entity_feature == Linear(fwd.feature, fwd.model.entity_class_num)
       IN  fwd' = [fwd EXCEPT !.pc = "returned",
                              !.result = <<intent_feature, EntityOutput(entity_feature)>>]

InitForward == LifecycleIdle /\ fwd \in ForwardCalls

NextForward == ForwardEmbed \/ ForwardPosition \/ ForwardEncode \/ ForwardHeads

SpecForward == InitForward /\ [][NextForward]_vars

FwdN == Len(fwd.x)
FwdL == Len(fwd.x[1])

(* C5: whenever forward returns for a batch of N sequences of the configured
   length L = seq_len, the intent logits have shape [N, intent_class_num] and
   the entity logits have shape [N, L, entity_class_num]; the scenario batch
   gives (4,3) and (4,10,5). *)
C5_OutputShapes ==
    (fwd.pc = "returned" /\ FwdL = fwd.model.seq_len) =>
        /\ fwd.result[1] = <<FwdN, fwd.model.intent_class_num>>
        /\ fwd.result[2] = <<FwdN, FwdL, fwd.model.entity_class_num>>
        /\ (fwd.x = ScenarioBatch /\ fwd.model = ScenarioModel)
               => fwd.result = << <<4, 3>>, <<4, 10, 5>> >>

C5_Witness ==
    /\ fwd.pc = "returned"
    /\ fwd.x = ScenarioBatch /\ fwd.model = ScenarioModel
    /\ fwd.result = << <<4, 3>>, <<4, 10, 5>> >>

(* C6: once the position indices are built, they are N rows, each exactly
   0, 1, ..., seq_len-1, whatever the batch size and the token ids. *)
C6_PositionIndices ==
    (fwd.pc \in {"encode", "heads", "returned", "raised"} /\ fwd.error # "IndexError@embedding") =>
        /\ Len(fwd.positions) = FwdN
        /\ \A i \in 1..FwdN :
              /\ Len(fwd.positions[i]) = fwd.model.seq_len
              /\ \A j \in 1..fwd.model.seq_len : fwd.positions[i][j] = j - 1

C6_Witness ==
    /\ fwd.pc = "encode"
    /\ FwdN = 2 /\ fwd.model.seq_len = 2
    /\ fwd.x = << <<1, 0>>, <<0, 1>> >>
    /\ fwd.positions = << <<0, 1>>, <<0, 1>> >>

FwdFinished == fwd.pc \in {"returned", "raised"}

(* C7 as stated: every batch whose length differs from seq_len ends in a
   shape-mismatch error at the positional addition, with no logits. *)
C7_Original ==
    (FwdFinished /\ FwdL # fwd.model.seq_len) =>
        (fwd.pc = "raised" /\ fwd.error = "ShapeMismatch@position" /\ fwd.result = <<>>)

(* C7 amended: every batch whose length differs from a seq_len of at least 2
   never reaches the encoder: the forward pass ends in a shape-mismatch error
   at the positional addition, with no logits.  (A position table of one row
   broadcasts over any batch length.) *)
C7_ShapeMismatch ==
    (FwdL # fwd.model.seq_len /\ fwd.model.seq_len >= 2) =>
        /\ fwd.pc \notin {"encode", "heads", "returned"}
        /\ FwdFinished =>
              (fwd.pc = "raised" /\ fwd.error = "ShapeMismatch@position" /\ fwd.result = <<>>)

C7_Witness ==
    /\ fwd.pc = "raised" /\ fwd.error = "ShapeMismatch@position"
    /\ FwdL = 1 /\ fwd.model.seq_len = 2

-----------------------------------------------------------------------------
(* Data split and loaders: prepare_data, train_dataloader, val_dataloader.  *)
(* A dataset, a subset and a loader are modelled by their lengths.          *)

\* train_length = int(len(self.dataset) * self.train_ratio)
TrainLength(n, ratio) == PyInt(FloatMul(n, Float(RatioNamed(ratio))))

\* random_split(dataset, lengths): refuses lengths that do not sum to len(dataset)
RandomSplitOk(n, lengths) ==
    /\ lengths[1] + lengths[2] = n
    /\ lengths[1] >= 0 /\ lengths[2] >= 0

\* len(DataLoader(subset, batch_size)): the last batch may be short
CeilDiv(a, b) == (a + b - 1) \div b

DataLoader(subset, bs) == [set |-> TRUE, n |-> CeilDiv(subset.n, bs)]

prepare_data ==
    /\ phase = "constructed"
    /\ LET train_length == TrainLength(dataset_len, hparams.train_ratio)
           lengths == <<train_length, dataset_len - train_length>>
       IN  IF RandomSplitOk(dataset_len, lengths)
           THEN /\ train_dataset' = [set |-> TRUE, n |-> lengths[1]]
                /\ val_dataset' = [set |-> TRUE, n |-> lengths[2]]
                /\ phase' = "setup"
           ELSE /\ phase' = "failed"
                /\ UNCHANGED <<train_dataset, val_dataset>>
    /\ UNCHANGED <<dataset_len, hparams, train_loader, val_loader, optimizers,
                   schedulers, heap, parameters, grad, cursor, last_step, outputs,
                   logged, fwd>>

train_dataloader ==
    /\ phase = "setup"
    /\ ~train_loader.set
    /\ train_loader' = DataLoader(train_dataset, hparams.batch_size)
    /\ UNCHANGED <<phase, dataset_len, hparams, train_dataset, val_dataset, val_loader,
                   optimizers, schedulers, heap, parameters, grad, cursor, last_step,
                   outputs, logged, fwd>>

val_dataloader ==
    /\ phase = "setup"
    /\ ~val_loader.set
    /\ val_loader' = DataLoader(val_dataset, hparams.batch_size)
    /\ UNCHANGED <<phase, dataset_len, hparams, train_dataset, val_dataset, train_loader,
                   optimizers, schedulers, heap, parameters, grad, cursor, last_step,
                   outputs, logged, fwd>>

Constructed(lens, ratios, sizes) ==
    /\ phase = "constructed"
    /\ dataset_len \in lens
    /\ hparams \in [train_ratio : ratios, batch_size : sizes]
    /\ train_dataset = Unset /\ val_dataset = Unset
    /\ train_loader = Unset /\ val_loader = Unset
    /\ optimizers = <<>> /\ schedulers = <<>> /\ heap = <<>>
    /\ parameters = <<>> /\ grad = <<>>
    /\ cursor = [epoch |-> 0, batch_idx |-> 0, optimizer_idx |-> 0]
    /\ last_step = NoStep
    /\ outputs = <<>>
    /\ logged = <<>>
    /\ fwd = FwdIdle

InitSplit == Constructed(0..MaxSplitLen, {r.name : r \in Ratios}, {4})

NextSplit == prepare_data \/ train_dataloader \/ val_dataloader

SpecSplit == InitSplit /\ [][NextSplit]_vars

\* k <= f and f < k, for a natural k and a binary64 f >= 0
NatLeqFloat(k, f) ==
    IF f.exp >= 0 THEN Leq(BitsOf(k, 31), ShiftLeft(f.sig, f.exp))
    ELSE Leq(ShiftLeft(BitsOf(k, 31), -f.exp), f.sig)

Product == FloatMul(dataset_len, Float(RatioNamed(hparams.train_ratio)))

(* C2: after prepare_data the two subset sizes add up to len(dataset), the
   train size is the floor of the product len(dataset) * train_ratio as the
   program computes it (a binary64 product), i.e. the one k with
   k <= product < k + 1, and 100 examples at ratio 0.8 split 80 / 20. *)
C2_SplitSizes ==
    train_dataset.set =>
        /\ val_dataset.set
        /\ train_dataset.n + val_dataset.n = dataset_len
        /\ train_dataset.n \in 0..dataset_len
        /\ NatLeqFloat(train_dataset.n, Product)
        /\ ~NatLeqFloat(train_dataset.n + 1, Product)
        /\ (dataset_len = 100 /\ hparams.train_ratio = "0.8")
               => (train_dataset.n = 80 /\ val_dataset.n = 20)

C2_Witness ==
    /\ train_dataset.set /\ val_dataset.set
    /\ dataset_len = 100 /\ hparams.train_ratio = "0.8"
    /\ train_dataset.n = 80 /\ val_dataset.n = 20

-----------------------------------------------------------------------------
(* Optimizers.  An optimizer object owns a set of parameters, a learning    *)
(* rate (initial lr times gamma^decay) and per-parameter state (the number  *)
(* of updates it has applied, which indexes its moment estimates).          *)

\* self.parameters(): the five sub-modules of EmbeddingTransformer
ParameterNames ==
    {"embedding", "position_embedding", "encoder", "intent_feature", "entity_feature"}

Optimizer(params) == [params |-> params, decay |-> 0, state |-> [p \in params |-> 0]]

\* StepLR(optimizer, step_size=1)
StepLR(optimizer) == [optimizer |-> optimizer, last_epoch |-> 0]

\* line 71: intent_optimizer = <optimizer>(self.parameters(), lr)
IntentOptimizerParams == ParameterNames

\* line 72: entity_optimizer = <optimizer>(self.parameters(), lr)
EntityOptimizerHeadOnly == {"entity_feature"}

EntityOptimizerParams == ParameterNames

\* line 74: the returned list [intent_optimizer, entity_optimizer], by object
OptimizerListAliased(intent_optimizer, entity_optimizer) ==
    <<intent_optimizer, intent_optimizer>>

OptimizerList(intent_optimizer, entity_optimizer) ==
    <<intent_optimizer, entity_optimizer>>

configure_optimizers ==
    /\ phase = "setup"
    /\ optimizers = <<>>
    /\ LET intent_optimizer == Len(heap) + 1
           entity_optimizer == Len(heap) + 2
           list == OptimizerList(intent_optimizer, entity_optimizer)
       IN  /\ heap' = heap \o <<Optimizer(IntentOptimizerParams),
                                Optimizer(EntityOptimizerParams)>>
           /\ optimizers' = list
           /\ schedulers' = <<StepLR(list[1]), StepLR(list[2])>>
    /\ parameters' = [p \in ParameterNames |-> 0]
    /\ grad' = [p \in ParameterNames |-> "None"]
    /\ UNCHANGED <<phase, dataset_len, hparams, train_dataset, val_dataset, train_loader,
                   val_loader, cursor, last_step, outputs, logged, fwd>>

\* Trainer.fit enters its loop once the loaders and the optimizers exist.
SetupDone == train_loader.set /\ val_loader.set /\ optimizers # <<>>

StartTraining ==
    /\ phase = "setup"
    /\ SetupDone
    /\ phase' = "training"
    /\ UNCHANGED <<dataset_len, hparams, train_dataset, val_dataset, train_loader,
                   val_loader, optimizers, schedulers, heap, parameters, grad, cursor,
                   last_step, outputs, logged, fwd>>

-----------------------------------------------------------------------------
(* Training.  A batch carries, beside its index, the value CrossEntropyLoss *)
(* takes on it for each head under the current parameters (the data and the *)
(* dropout mask are the environment's).                                     *)

LossValues == 0..MaxLoss

AccValues == {0, 1}

Batches == [intent_ce : LossValues, entity_ce : LossValues,
            intent_acc : AccValues, entity_acc : AccValues]

\* self.forward(tokens): the two heads' logits, each known by its head
forward(batch) ==
    [intent_pred |-> [head |-> "intent", ce |-> batch.intent_ce, acc |-> batch.intent_acc],
     entity_pred |-> [head |-> "entity", ce |-> batch.entity_ce, acc |-> batch.entity_acc]]

\* self.loss_fn(pred, target)
loss_fn(pred) == pred.ce

\* get_accuracy(target, pred)
get_accuracy(pred) == pred.acc

None == <<>>

training_step_combined(batch, batch_idx, optimizer_idx) ==
    LET pred == forward(batch)
        intent_loss == loss_fn(pred.intent_pred)
        entity_loss == loss_fn(pred.entity_pred)
    IN  IF optimizer_idx = 0
        THEN [k \in {"loss", "intent_loss"} |-> intent_loss]
        ELSE [k \in {"loss", "entity_loss"} |->
                 IF k = "loss" THEN intent_loss + entity_loss ELSE entity_loss]

training_step(batch, batch_idx, optimizer_idx) ==
    LET pred == forward(batch)
    IN  IF optimizer_idx = 0
        THEN LET intent_loss == loss_fn(pred.intent_pred)
             IN  [k \in {"loss", "intent_loss"} |-> intent_loss]
        ELSE IF optimizer_idx = 1
        THEN LET entity_loss == loss_fn(pred.entity_pred)
             IN  [k \in {"loss", "entity_loss"} |-> entity_loss]
        ELSE None

\* the parameters a loss depends on: the intent logits come from feature[0]
\* through intent_feature, the entity logits from feature through entity_feature
Reaches(key) ==
    {"embedding", "position_embedding", "encoder"}
        \cup (IF key = "intent_loss" THEN {"intent_feature"} ELSE {"entity_feature"})

LossKey(result) == CHOOSE k \in DOMAIN result : k # "loss"

\* loss.backward(): every parameter the loss depends on gets a gradient
Backward(g, result) ==
    [p \in DOMAIN g |-> IF p \in Reaches(LossKey(result)) THEN "set" ELSE g[p]]

\* optimizer.step(): every owned parameter with a gradient is updated and its
\* state advanced; a parameter moves only under a nonzero gradient
StepState(opt, g) ==
    [opt EXCEPT !.state = [p \in opt.params |->
                              IF g[p] # "None" THEN opt.state[p] + 1 ELSE opt.state[p]]]

Moved(opt, g) == {p \in opt.params : g[p] = "set"}

\* optimizer.zero_grad()
ZeroGrad(opt, g) ==
    [p \in DOMAIN g |-> IF p \in opt.params /\ g[p] # "None" THEN "zero" ELSE g[p]]

TrainBatches == train_loader.n

\* the loop position after one optimizer step
Advance(c) ==
    IF c.optimizer_idx + 1 < Len(optimizers)
    THEN [c EXCEPT !.optimizer_idx = c.optimizer_idx + 1]
    ELSE [c EXCEPT !.optimizer_idx = 0, !.batch_idx = c.batch_idx + 1]

\* One call of training_step by the trainer, with what the trainer does with the
\* returned loss: backward, the step of optimizers[optimizer_idx], zero_grad.
TrainingStep ==
    /\ phase = "training"
    /\ cursor.batch_idx < TrainBatches
    /\ \E batch \in Batches :
          LET idx == cursor.optimizer_idx
              result == training_step(batch, cursor.batch_idx, idx)
          IN  IF result = None
              THEN /\ phase' = "failed"
                   /\ UNCHANGED <<heap, parameters, grad, cursor, last_step>>
              ELSE LET ref == optimizers[idx + 1]
                       opt == heap[ref]
                       g == Backward(grad, result)
                   IN  /\ heap' = [heap EXCEPT ![ref] = StepState(opt, g)]
                       /\ parameters' = [p \in DOMAIN parameters |->
                                            IF p \in Moved(opt, g)
                                            THEN parameters[p] + 1 ELSE parameters[p]]
                       /\ grad' = ZeroGrad(opt, g)
                       /\ cursor' = Advance(cursor)
                       /\ last_step' = [called |-> TRUE,
                                        epoch |-> cursor.epoch,
                                        batch_idx |-> cursor.batch_idx,
                                        optimizer_idx |-> idx,
                                        batch |-> batch,
                                        result |-> result,
                                        stepped |-> ref,
                                        moved |-> Moved(opt, g)]
                       /\ phase' = phase
    /\ UNCHANGED <<dataset_len, hparams, train_dataset, val_dataset, train_loader,
                   val_loader, optimizers, schedulers, outputs, logged, fwd>>

-----------------------------------------------------------------------------
(* Validation.  A metric averaged over the batches is kept exact, as the    *)
(* fraction num / den.                                                      *)

validation_step(batch, batch_idx) ==
    LET pred == forward(batch)
        intent_acc == get_accuracy(pred.intent_pred)
        entity_acc == get_accuracy(pred.entity_pred)
        intent_loss == loss_fn(pred.intent_pred)
        entity_loss == loss_fn(pred.entity_pred)
    IN  [val_intent_acc |-> intent_acc,
         val_entity_acc |-> entity_acc,
         val_intent_loss |-> intent_loss,
         val_entity_loss |-> entity_loss,
         val_loss |-> intent_loss + entity_loss]

RECURSIVE SumOf(_)
SumOf(xs) == IF xs = <<>> THEN 0 ELSE Head(xs) + SumOf(Tail(xs))

\* torch.stack(xs).mean()
StackSum(xs) == [num |-> SumOf(xs), den |-> 1]

StackMean(xs) == [num |-> SumOf(xs), den |-> Len(xs)]

Column(outs, key) == [i \in 1..Len(outs) |-> outs[i][key]]

\* lines 114-121; the value is the returned "log" dictionary
validation_epoch_end(outs) ==
    LET avg_loss == StackMean(Column(outs, "val_loss"))
        avg_intent_acc == StackMean(Column(outs, "val_intent_acc"))
        avg_entity_acc == StackMean(Column(outs, "val_entity_acc"))
    IN  [val_loss |-> avg_loss, intent_acc |-> avg_intent_acc, entity_acc |-> avg_entity_acc]

\* lines 123-136; the value is the returned "log" dictionary
valdition_epoch_end(outs) ==
    LET avg_intent_loss == StackMean(Column(outs, "val_intent_loss"))
        avg_entity_loss == StackMean(Column(outs, "val_entity_loss"))
    IN  [val_intent_loss |-> avg_intent_loss, val_entity_loss |-> avg_entity_loss]

\* the epoch-end methods the class defines, by the names it gives them
EpochEndMethods == {"validation_epoch_end", "valdition_epoch_end"}

\* the epoch-end method names LightningModule has the trainer call
TrainerHooks == {"validation_epoch_end"}

Invoke(name, outs) ==
    IF name = "validation_epoch_end" THEN validation_epoch_end(outs)
    ELSE valdition_epoch_end(outs)

\* the metrics of every method the trainer calls, in one dictionary
Emitted(outs) ==
    LET called == EpochEndMethods \cap TrainerHooks
        keys == UNION {DOMAIN Invoke(m, outs) : m \in called}
    IN  [k \in keys |-> Invoke(CHOOSE m \in called : k \in DOMAIN Invoke(m, outs), outs)[k]]

ValBatches == val_loader.n

\* all batches of the epoch are done: the validation loop starts
StartValidation ==
    /\ phase = "training"
    /\ cursor.batch_idx = TrainBatches
    /\ phase' = "validating"
    /\ outputs' = <<>>
    /\ logged' = <<>>
    /\ last_step' = NoStep
    /\ UNCHANGED <<dataset_len, hparams, train_dataset, val_dataset, train_loader,
                   val_loader, optimizers, schedulers, heap, parameters, grad, cursor, fwd>>

ValidationStep ==
    /\ phase = "validating"
    /\ Len(outputs) < ValBatches
    /\ \E batch \in Batches :
          outputs' = Append(outputs, validation_step(batch, Len(outputs)))
    /\ UNCHANGED <<phase, dataset_len, hparams, train_dataset, val_dataset, train_loader,
                   val_loader, optimizers, schedulers, heap, parameters, grad, cursor,
                   last_step, logged, fwd>>

ValidationEpochEnd ==
    /\ phase = "validating"
    /\ Len(outputs) = ValBatches
    /\ logged' = Emitted(outputs)
    /\ phase' = "epoch_end"
    /\ UNCHANGED <<dataset_len, hparams, train_dataset, val_dataset, train_loader,
                   val_loader, optimizers, schedulers, heap, parameters, grad, cursor,
                   last_step, outputs, fwd>>

\* scheduler.step() of an epoch-interval StepLR(step_size=1)
SchedulerStep(sch) == [sch EXCEPT !.last_epoch = sch.last_epoch + 1]

RECURSIVE Decay(_, _, _)
Decay(h, schs, i) ==
    IF i > Len(schs) THEN h
    ELSE Decay([h EXCEPT ![schs[i].optimizer].decay = schs[i].last_epoch], schs, i + 1)

\* the end of a training epoch: every scheduler steps once, and the next epoch
\* starts with no validation results
EpochEnd ==
    /\ phase = "epoch_end"
    /\ schedulers' = [i \in 1..Len(schedulers) |-> SchedulerStep(schedulers[i])]
    /\ heap' = Decay(heap, schedulers', 1)
    /\ cursor' = [epoch |-> cursor.epoch + 1, batch_idx |-> 0, optimizer_idx |-> 0]
    /\ phase' = IF cursor.epoch + 1 < MaxEpochs THEN "training" ELSE "done"
    /\ outputs' = <<>>
    /\ logged' = <<>>
    /\ UNCHANGED <<dataset_len, hparams, train_dataset, val_dataset, train_loader,
                   val_loader, optimizers, parameters, grad, last_step, fwd>>

\* The dataset class is not part of these sources: the fit starts from a dataset
\* that holds at least one example, so the validation subset always holds one.
Init == Constructed(1..MaxDataset, {"0.8", "0.5"}, 1..MaxBatchSize)

Next ==
    \/ prepare_data
    \/ train_dataloader
    \/ val_dataloader
    \/ configure_optimizers
    \/ StartTraining
    \/ TrainingStep
    \/ StartValidation
    \/ ValidationStep
    \/ ValidationEpochEnd
    \/ EpochEnd

Spec == Init /\ [][Next]_vars

-----------------------------------------------------------------------------
(* Properties of the fit *)

\* the optimizer object, and the scheduler, of the role that did not step
OtherRole(idx) == 2 - idx

(* C1: a training step taken with optimizer index 0 leaves optimizer 1 (its
   per-parameter state, its learning-rate decay) and scheduler 1 (its step
   counter) as they were, and a step taken with index 1 leaves optimizer 0 and
   scheduler 0 as they were. *)
C1_AlternationIsolation ==
    [][ (last_step' # last_step /\ last_step'.called) =>
            LET other == OtherRole(last_step'.optimizer_idx)
            IN  /\ heap'[optimizers[other]] = heap[optimizers[other]]
                /\ schedulers'[other] = schedulers[other] ]_vars

C1_Witness ==
    /\ last_step.called
    /\ last_step.optimizer_idx = 0
    /\ cursor.epoch = 1
    /\ heap[optimizers[2]].state["entity_feature"] > 0
    /\ heap[optimizers[2]].decay = 1
    /\ heap[optimizers[1]].state["intent_feature"] > heap[optimizers[2]].state["intent_feature"]

(* C3: when a validation epoch has ended, val_loss has been emitted and equals
   the unweighted mean over the epoch's validation batches of
   val_intent_loss + val_entity_loss as validation_step returned them. *)
C3_EpochValLoss ==
    phase = "epoch_end" =>
        /\ "val_loss" \in DOMAIN logged
        /\ Len(outputs) = ValBatches
        /\ logged["val_loss"].den > 0
        /\ logged["val_loss"].num * Len(outputs) =
              logged["val_loss"].den
                * SumOf([i \in 1..Len(outputs) |->
                            outputs[i].val_intent_loss + outputs[i].val_entity_loss])

C3_Witness ==
    /\ phase = "epoch_end"
    /\ Len(outputs) = 2
    /\ outputs[1].val_intent_loss = 2 /\ outputs[1].val_entity_loss = 1
    /\ outputs[2].val_intent_loss = 0 /\ outputs[2].val_entity_loss = 2
    /\ logged["val_loss"] = [num |-> 5, den |-> 2]

(* C4 as stated: once a validation epoch has ended, val_intent_loss and
   val_entity_loss have been emitted beside val_loss, intent_acc and
   entity_acc. *)
C4_Original ==
    phase = "epoch_end" =>
        {"val_loss", "intent_acc", "entity_acc", "val_intent_loss", "val_entity_loss"}
            \subseteq DOMAIN logged

ZeroLengthSplit ==
    /\ train_dataset.set /\ val_dataset.set
    /\ (train_dataset.n = 0 \/ val_dataset.n = 0)

(* C8 as stated: after a zero-length train or validation subset was produced,
   the data-loading setup does not complete: the run is stopped before both
   loaders are built, and no training loop is entered. *)
C8_Original ==
    ZeroLengthSplit =>
        /\ ~(train_loader.set /\ val_loader.set)
        /\ phase \in {"setup", "failed"}

(* C9: the two optimizers are distinct objects over one and the same parameter
   set, all of the module's parameters, each with its own state for every
   parameter; and every training step moves parameters that the other
   optimizer owns too. *)
C9_SharedParameters ==
    optimizers # <<>> =>
        /\ Len(optimizers) = 2
        /\ optimizers[1] # optimizers[2]
        /\ heap[optimizers[1]].params = heap[optimizers[2]].params
        /\ heap[optimizers[1]].params = DOMAIN parameters
        /\ \A i \in 1..2 : DOMAIN heap[optimizers[i]].state = heap[optimizers[i]].params
        /\ schedulers[1].optimizer = optimizers[1]
        /\ schedulers[2].optimizer = optimizers[2]
        /\ last_step.called =>
              /\ last_step.moved # {}
              /\ last_step.moved
                    \subseteq heap[optimizers[OtherRole(last_step.optimizer_idx)]].params

C9_Witness ==
    /\ last_step.called
    /\ last_step.optimizer_idx = 1
    /\ "encoder" \in last_step.moved
    /\ parameters["encoder"] = 2
    /\ heap[optimizers[1]].state["encoder"] = 1
    /\ heap[optimizers[2]].state["encoder"] = 1

(* C10: every training_step call handles one batch under one role: index 0
   returns the intent cross-entropy of that batch as its loss, index 1 the
   entity cross-entropy, never a combination, never nothing; and the optimizer
   stepped with the loss is the one of that index. *)
C10_OneRolePerStep ==
    last_step.called =>
        /\ last_step.optimizer_idx \in {0, 1}
        /\ last_step.result # None
        /\ last_step.optimizer_idx = 0 =>
              /\ DOMAIN last_step.result = {"loss", "intent_loss"}
              /\ last_step.result["loss"] = last_step.batch.intent_ce
              /\ last_step.result["intent_loss"] = last_step.batch.intent_ce
        /\ last_step.optimizer_idx = 1 =>
              /\ DOMAIN last_step.result = {"loss", "entity_loss"}
              /\ last_step.result["loss"] = last_step.batch.entity_ce
              /\ last_step.result["entity_loss"] = last_step.batch.entity_ce
        /\ last_step.stepped = optimizers[last_step.optimizer_idx + 1]

C10_Witness ==
    /\ last_step.called
    /\ last_step.optimizer_idx = 1
    /\ last_step.batch.intent_ce = 1
    /\ last_step.batch.entity_ce = 2
    /\ last_step.result["loss"] = 2

=============================================================================
